---- MODULE Spec2Model ----
(***************************************************************************)
(* The ledger engine of simple-banking-cli: customers, their optional      *)
(* account, the per-account transaction log and the Bank aggregate with    *)
(* its operations (src/src/models, src/src/bank).                          *)
(*                                                                         *)
(* Value domains.                                                          *)
(*  - Amounts and balances are f64 in the source: binary floating point    *)
(*    with a 53-bit significand, whose + and - return the representable    *)
(*    value nearest to the exact result (ties to the even significand).    *)
(*    The model keeps that rounding rule on a format with a significand    *)
(*    of SignificandBits bits: a value is an integer m * 2^e with          *)
(*    |m| < 2^SignificandBits, e >= 0.  str::parse::<f64> also accepts     *)
(*    "NaN": NaN is a value of the model, every comparison with it is      *)
(*    false and every sum or difference with it is NaN.  Infinities and    *)
(*    exponents below 0 are outside the model.                             *)
(*  - Uuid::new_v4() returns a string that no earlier call returned.  The  *)
(*    n-th uuid drawn for an object of kind k (customer, account,          *)
(*    transaction) is modelled by the pair <<k, n>>, n >= 1; <<k, 0>> is   *)
(*    a string that was never generated.                                   *)
(*  - Strings that the code lower-cases (emails) are sequences of ASCII    *)
(*    codes.                                                               *)
(*  - Timestamps (Utc::now()) are written once and never read by any       *)
(*    ledger operation; they are left out of the records.                  *)
(***************************************************************************)
EXTENDS Integers, Sequences, FiniteSets, TLC

(* ---------------------------- bounds ----------------------------------- *)
MaxRecords == 3        \* transaction records created in one run
SignificandBits == 3   \* width of the significand of the modelled f64 (53 in the source)

VARIABLES
  bank,        \* the Bank behind Arc<Mutex<Bank>>: name, customers, total_transactions
  uuid,        \* per kind of object, the number of uuids generated so far
  last_call,   \* the ledger call of the running handler: operation, arguments, Result
  before,      \* the bank as it was when that call was made
  lock,        \* the Mutex around the bank: None, or Some(thread holding the guard)
  threads,     \* per thread sharing the Arc<Mutex<Bank>>: where it is in its handler
  store        \* the data file: None while it does not exist, or Some(its JSON text)

vars == <<bank, uuid, last_call, before, lock, threads, store>>

(* ---------------------------- inputs ----------------------------------- *)
\* "Alice"/"a@x.com", "Al"/"A@x.com", "Bob"/"b@x.com" as ASCII codes
Registrations ==
  { [name |-> <<65, 108, 105, 99, 101>>, email |-> <<97, 64, 120>>],
    [name |-> <<65, 108>>,               email |-> <<65, 64, 120>>],
    [name |-> <<66, 111, 98>>,           email |-> <<98, 64, 120>>] }

\* "NaN" as parsed by the handlers; the integer stands for the value and takes
\* no part in integer arithmetic or comparison
NaN == 0 - 1000

\* the amounts typed in, as parsed by the handlers: "-1", "0", "1" and a
\* representable amount above 2^SignificandBits (the value next to it, one
\* less, is not representable)
Amounts == {0 - 1, 0, 1, 2^SignificandBits + 2}

\* the amounts typed in for a transfer: invalid, payable, large
TransferAmounts == {0, 1, 2^SignificandBits + 2}

\* the amounts typed in by a user who also types "NaN"
NonFiniteAmounts == {1, NaN}

\* the search texts typed in: "AL", "b" and "z" as ASCII codes
NameQueries == { <<65, 76>>, <<98>>, <<122>> }

\* two strings that are no customer's id
NoSuchId  == <<"customer", 0>>
OtherNoId == <<"account", 0>>

\* customer ids a caller may pass: every registered id and an unregistered one
CustomerIds == DOMAIN bank.customers \cup {NoSuchId}

\* recipient ids a caller may pass: every registered id and another unregistered one
RecipientIds == DOMAIN bank.customers \cup {OtherNoId}

(* ---------------------------- errors.rs -------------------------------- *)
\* BankResult<T>.  Ok of an id or of () carries value, Ok of an f64 carries
\* balance, Err carries error.
Ok(v)        == [ok |-> TRUE, value |-> v]
OkBalance(b) == [ok |-> TRUE, balance |-> b]
Err(e)       == [ok |-> FALSE, error |-> e]
Unit         == <<>>

CustomerNotFound(id)      == [kind |-> "CustomerNotFound", id |-> id]
AccountNotFound(id)       == [kind |-> "AccountNotFound", id |-> id]
InsufficientFunds(av, rq) == [kind |-> "InsufficientFunds", available |-> av, requested |-> rq]
InvalidAmount(amt)        == [kind |-> "InvalidAmount", amount |-> amt]
CustomerAlreadyExists(s)  == [kind |-> "CustomerAlreadyExists", detail |-> s]

IoError            == [kind |-> "IoError"]
SerializationError == [kind |-> "SerializationError"]

\* no BankError: Option::unwrap() on None, the call does not return
Panic == [kind |-> "panic"]

\* "Customer already has an account" as ASCII codes
AlreadyHasAccountText ==
  <<67, 117, 115, 116, 111, 109, 101, 114, 32, 97, 108, 114, 101, 97, 100, 121, 32,
    104, 97, 115, 32, 97, 110, 32, 97, 99, 99, 111, 117, 110, 116>>

(* ---------------------------- f64 -------------------------------------- *)
\* the distance between neighbouring representable values around magnitude m
RECURSIVE f64_ulp(_)
f64_ulp(m) == IF m < 2^SignificandBits THEN 1 ELSE 2 * f64_ulp(m \div 2)

\* the representable value nearest to the exact value x, ties to even
f64_round(x) ==
  LET m  == IF x < 0 THEN 0 - x ELSE x
      u  == f64_ulp(m)
      q  == m \div u
      r  == m % u
      up == 2 * r > u \/ (2 * r = u /\ q % 2 = 1)
      n  == (IF up THEN q + 1 ELSE q) * u
  IN  IF x < 0 THEN 0 - n ELSE n

f64_add(a, b) == IF a = NaN \/ b = NaN THEN NaN ELSE f64_round(a + b)
f64_sub(a, b) == IF a = NaN \/ b = NaN THEN NaN ELSE f64_round(a - b)

\* a < b and a <= b on f64: false when either side is NaN
f64_lt(a, b) == a # NaN /\ b # NaN /\ a < b
f64_le(a, b) == a # NaN /\ b # NaN /\ a <= b

(* ---------------------------- Uuid::new_v4 ----------------------------- *)
Uuid_new_v4(u, kind) == <<kind, u[kind] + 1>>
Drawn(u, kind)       == [u EXCEPT ![kind] = @ + 1]

(* ---------------------------- Option<T> -------------------------------- *)
None    == <<>>
Some(x) == <<x>>

(* ---------------------------- models/transaction.rs -------------------- *)
Deposit            == [tag |-> "Deposit"]
Withdrawal         == [tag |-> "Withdrawal"]
Transfer(to_account_id) == [tag |-> "Transfer", to_account_id |-> to_account_id]

Transaction_new(u, transaction_type, amount, balance_after) ==
  [id |-> Uuid_new_v4(u, "transaction"), transaction_type |-> transaction_type,
   amount |-> amount, balance_after |-> balance_after]

(* ---------------------------- models/account.rs ------------------------ *)
\* mutant: a Deposit record is written for an initial deposit of 0 as well
Account_new_always_records(u, initial_deposit) ==
  IF f64_lt(initial_deposit, 0)
  THEN [result |-> Err(InvalidAmount(initial_deposit)), uuid |-> u]
  ELSE LET account == [id |-> Uuid_new_v4(u, "account"), balance |-> initial_deposit, transactions |-> <<>>]
       IN  [result |-> Ok([account EXCEPT !.transactions =
                              Append(@, Transaction_new(u, Deposit,
                                                        initial_deposit, initial_deposit))]),
            uuid |-> Drawn(Drawn(u, "account"), "transaction")]

\* Account::new: Err before any uuid is drawn
Account_new(u, initial_deposit) ==
  IF f64_lt(initial_deposit, 0)
  THEN [result |-> Err(InvalidAmount(initial_deposit)), uuid |-> u]
  ELSE LET account == [id |-> Uuid_new_v4(u, "account"), balance |-> initial_deposit, transactions |-> <<>>]
       IN  IF f64_lt(0, initial_deposit)
           THEN [result |-> Ok([account EXCEPT !.transactions =
                                  Append(@, Transaction_new(u, Deposit,
                                                            initial_deposit, initial_deposit))]),
                 uuid |-> Drawn(Drawn(u, "account"), "transaction")]
           ELSE [result |-> Ok(account), uuid |-> Drawn(u, "account")]

Account_deposit(self, u, amount) ==
  IF f64_le(amount, 0)
  THEN [result |-> Err(InvalidAmount(amount)), self |-> self, uuid |-> u]
  ELSE LET balance == f64_add(self.balance, amount)
       IN  [result |-> Ok(Unit),
            self |-> [self EXCEPT !.balance = balance,
                                  !.transactions = Append(@, Transaction_new(u, Deposit, amount, balance))],
            uuid |-> Drawn(u, "transaction")]

\* mutant: InsufficientFunds built with its two amounts exchanged
Account_withdraw_swapped(self, u, amount) ==
  IF f64_le(amount, 0)
  THEN [result |-> Err(InvalidAmount(amount)), self |-> self, uuid |-> u]
  ELSE IF f64_lt(self.balance, amount)
  THEN [result |-> Err(InsufficientFunds(amount, self.balance)), self |-> self, uuid |-> u]
  ELSE LET balance == f64_sub(self.balance, amount)
       IN  [result |-> Ok(Unit),
            self |-> [self EXCEPT !.balance = balance,
                                  !.transactions = Append(@, Transaction_new(u, Withdrawal, amount, balance))],
            uuid |-> Drawn(u, "transaction")]

Account_withdraw(self, u, amount) ==
  IF f64_le(amount, 0)
  THEN [result |-> Err(InvalidAmount(amount)), self |-> self, uuid |-> u]
  ELSE IF f64_lt(self.balance, amount)
  THEN [result |-> Err(InsufficientFunds(self.balance, amount)), self |-> self, uuid |-> u]
  ELSE LET balance == f64_sub(self.balance, amount)
       IN  [result |-> Ok(Unit),
            self |-> [self EXCEPT !.balance = balance,
                                  !.transactions = Append(@, Transaction_new(u, Withdrawal, amount, balance))],
            uuid |-> Drawn(u, "transaction")]

\* Iterator::sum over f64 values, in order, from 0.0
RECURSIVE sum(_)
sum(values) ==
  IF values = <<>> THEN 0
  ELSE f64_add(sum(SubSeq(values, 1, Len(values) - 1)), values[Len(values)])

\* the amounts of the records of the log that are of one of the given kinds
AmountsOfKind(transactions, tags) ==
  LET kept == SelectSeq(transactions, LAMBDA tx : tx.transaction_type.tag \in tags)
  IN  [i \in 1..Len(kept) |-> kept[i].amount]

Account_total_deposits(self) == sum(AmountsOfKind(self.transactions, {"Deposit"}))

Account_total_withdrawals(self) == sum(AmountsOfKind(self.transactions, {"Withdrawal"}))

\* mutant: the first record of the log is marked, not the last
Account_mark_first_as_transfer(self, to_account_id) ==
  IF Len(self.transactions) > 0
  THEN [self EXCEPT !.transactions[1].transaction_type = Transfer(to_account_id)]
  ELSE self

Account_mark_last_as_transfer(self, to_account_id) ==
  IF Len(self.transactions) > 0
  THEN [self EXCEPT !.transactions[Len(self.transactions)].transaction_type =
                       Transfer(to_account_id)]
  ELSE self

(* ---------------------------- models/customer.rs ----------------------- *)
Customer_new(u, name, email) ==
  [id |-> Uuid_new_v4(u, "customer"), name |-> name, email |-> email, account |-> None]

\* mutant: an existing account is replaced
Customer_create_account_again(self, u, initial_deposit) ==
  LET a == Account_new(u, initial_deposit)
  IN  IF a.result.ok
      THEN [result |-> Ok(Unit), self |-> [self EXCEPT !.account = Some(a.result.value)],
            uuid |-> a.uuid]
      ELSE [result |-> a.result, self |-> self, uuid |-> a.uuid]

Customer_create_account(self, u, initial_deposit) ==
  IF self.account # None
  THEN [result |-> Err(CustomerAlreadyExists(AlreadyHasAccountText)),
        self |-> self, uuid |-> u]
  ELSE LET a == Account_new(u, initial_deposit)
       IN  IF a.result.ok
           THEN [result |-> Ok(Unit), self |-> [self EXCEPT !.account = Some(a.result.value)],
                 uuid |-> a.uuid]
           ELSE [result |-> a.result, self |-> self, uuid |-> a.uuid]

Customer_get_account(self) ==
  IF self.account = None THEN Err(AccountNotFound(self.id)) ELSE Ok(self.account[1])

Customer_get_account_mut(self) ==
  IF self.account = None THEN Err(AccountNotFound(self.id)) ELSE Ok(self.account[1])

(* ---------------------------- bank/core.rs ----------------------------- *)
\* str::to_lowercase on ASCII text
to_lowercase(s) ==
  [i \in 1..Len(s) |-> IF s[i] >= 65 /\ s[i] <= 90 THEN s[i] + 32 ELSE s[i]]

Bank_new(name) == [name |-> name, customers |-> << >>, total_transactions |-> 0]

\* mutant: the new customer replaces the map
Bank_register_customer_alone(self, u, name, email) ==
  IF \E id \in DOMAIN self.customers :
        to_lowercase(self.customers[id].email) = to_lowercase(email)
  THEN [result |-> Err(CustomerAlreadyExists(email)), self |-> self, uuid |-> u]
  ELSE LET customer == Customer_new(u, name, email)
       IN  [result |-> Ok(customer.id),
            self |-> [self EXCEPT !.customers = (customer.id :> customer)],
            uuid |-> Drawn(u, "customer")]

\* mutant: emails compared as written
Bank_register_customer_exact(self, u, name, email) ==
  IF \E id \in DOMAIN self.customers : self.customers[id].email = email
  THEN [result |-> Err(CustomerAlreadyExists(email)), self |-> self, uuid |-> u]
  ELSE LET customer == Customer_new(u, name, email)
       IN  [result |-> Ok(customer.id),
            self |-> [self EXCEPT !.customers = (customer.id :> customer) @@ @],
            uuid |-> Drawn(u, "customer")]

Bank_register_customer(self, u, name, email) ==
  IF \E id \in DOMAIN self.customers :
        to_lowercase(self.customers[id].email) = to_lowercase(email)
  THEN [result |-> Err(CustomerAlreadyExists(email)), self |-> self, uuid |-> u]
  ELSE LET customer == Customer_new(u, name, email)
       IN  [result |-> Ok(customer.id),
            self |-> [self EXCEPT !.customers = (customer.id :> customer) @@ @],
            uuid |-> Drawn(u, "customer")]

Bank_create_account_for_customer(self, u, customer_id, initial_deposit) ==
  IF customer_id \notin DOMAIN self.customers
  THEN [result |-> Err(CustomerNotFound(customer_id)), self |-> self, uuid |-> u]
  ELSE LET c == Customer_create_account(self.customers[customer_id], u, initial_deposit)
       IN  IF ~c.result.ok
           THEN [result |-> c.result, self |-> self, uuid |-> c.uuid]
           ELSE LET account == Customer_get_account(c.self)
                    s1 == [self EXCEPT !.customers[customer_id] = c.self,
                                       !.total_transactions = @ + 1]
                IN  IF ~account.ok
                    THEN [result |-> account, self |-> s1, uuid |-> c.uuid]
                    ELSE [result |-> Ok(account.value.id), self |-> s1, uuid |-> c.uuid]

Bank_get_customer(self, customer_id) ==
  IF customer_id \notin DOMAIN self.customers
  THEN Err(CustomerNotFound(customer_id))
  ELSE Ok(self.customers[customer_id])

\* the customers, in no order (HashMap::values)
Bank_list_customers(self) == {self.customers[id] : id \in DOMAIN self.customers}

\* str::contains
contains(s, pattern) ==
  \E i \in 0..(Len(s) - Len(pattern)) : SubSeq(s, i + 1, i + Len(pattern)) = pattern

Bank_find_customers_by_name(self, name_query) ==
  LET query_lower == to_lowercase(name_query)
  IN  {c \in Bank_list_customers(self) : contains(to_lowercase(c.name), query_lower)}

RECURSIVE SumBalances(_, _)
SumBalances(customers, ids) ==
  IF ids = {} THEN 0
  ELSE LET id == CHOOSE x \in ids : TRUE
           b  == IF customers[id].account = None THEN 0 ELSE customers[id].account[1].balance
       IN  f64_add(SumBalances(customers, ids \ {id}), b)

Bank_total_bank_balance(self) == SumBalances(self.customers, DOMAIN self.customers)

(* ---------------------------- bank/transactions.rs --------------------- *)
\* mutant: the amount is checked before the account is looked up
Bank_deposit_amount_first(self, u, customer_id, amount) ==
  IF customer_id \notin DOMAIN self.customers
  THEN [result |-> Err(CustomerNotFound(customer_id)), self |-> self, uuid |-> u]
  ELSE IF f64_le(amount, 0)
  THEN [result |-> Err(InvalidAmount(amount)), self |-> self, uuid |-> u]
  ELSE LET account == Customer_get_account_mut(self.customers[customer_id])
       IN  IF ~account.ok
           THEN [result |-> account, self |-> self, uuid |-> u]
           ELSE LET d == Account_deposit(account.value, u, amount)
                IN  [result |-> OkBalance(d.self.balance),
                     self |-> [self EXCEPT !.customers[customer_id].account = Some(d.self),
                                           !.total_transactions = @ + 1],
                     uuid |-> d.uuid]

Bank_deposit(self, u, customer_id, amount) ==
  IF customer_id \notin DOMAIN self.customers
  THEN [result |-> Err(CustomerNotFound(customer_id)), self |-> self, uuid |-> u]
  ELSE LET account == Customer_get_account_mut(self.customers[customer_id])
       IN  IF ~account.ok
           THEN [result |-> account, self |-> self, uuid |-> u]
           ELSE LET d == Account_deposit(account.value, u, amount)
                IN  IF ~d.result.ok
                    THEN [result |-> d.result, self |-> self, uuid |-> d.uuid]
                    ELSE [result |-> OkBalance(d.self.balance),
                          self |-> [self EXCEPT !.customers[customer_id].account = Some(d.self),
                                                !.total_transactions = @ + 1],
                          uuid |-> d.uuid]

\* mutant: total_transactions is incremented before the withdrawal is tried
Bank_withdraw_counts_first(self, u, customer_id, amount) ==
  IF customer_id \notin DOMAIN self.customers
  THEN [result |-> Err(CustomerNotFound(customer_id)), self |-> self, uuid |-> u]
  ELSE LET account == Customer_get_account_mut(self.customers[customer_id])
           counted == [self EXCEPT !.total_transactions = @ + 1]
       IN  IF ~account.ok
           THEN [result |-> account, self |-> self, uuid |-> u]
           ELSE LET w == Account_withdraw(account.value, u, amount)
                IN  IF ~w.result.ok
                    THEN [result |-> w.result, self |-> counted, uuid |-> w.uuid]
                    ELSE [result |-> OkBalance(w.self.balance),
                          self |-> [counted EXCEPT !.customers[customer_id].account = Some(w.self)],
                          uuid |-> w.uuid]

Bank_withdraw(self, u, customer_id, amount) ==
  IF customer_id \notin DOMAIN self.customers
  THEN [result |-> Err(CustomerNotFound(customer_id)), self |-> self, uuid |-> u]
  ELSE LET account == Customer_get_account_mut(self.customers[customer_id])
       IN  IF ~account.ok
           THEN [result |-> account, self |-> self, uuid |-> u]
           ELSE LET w == Account_withdraw(account.value, u, amount)
                IN  IF ~w.result.ok
                    THEN [result |-> w.result, self |-> self, uuid |-> w.uuid]
                    ELSE [result |-> OkBalance(w.self.balance),
                          self |-> [self EXCEPT !.customers[customer_id].account = Some(w.self),
                                                !.total_transactions = @ + 1],
                          uuid |-> w.uuid]

\* mutant: the destination id is looked up first
Bank_transfer_validate_to_first(self, from_customer_id, to_customer_id) ==
  IF to_customer_id \notin DOMAIN self.customers
  THEN Err(CustomerNotFound(to_customer_id))
  ELSE IF from_customer_id \notin DOMAIN self.customers
  THEN Err(CustomerNotFound(from_customer_id))
  ELSE Ok(Unit)

\* mutant: only the source id is looked up
Bank_transfer_validate_from_only(self, from_customer_id, to_customer_id) ==
  IF from_customer_id \notin DOMAIN self.customers
  THEN Err(CustomerNotFound(from_customer_id))
  ELSE Ok(Unit)

\* Bank::transfer, "Validate both customers exist"
Bank_transfer_validate(self, from_customer_id, to_customer_id) ==
  IF from_customer_id \notin DOMAIN self.customers
  THEN Err(CustomerNotFound(from_customer_id))
  ELSE IF to_customer_id \notin DOMAIN self.customers
  THEN Err(CustomerNotFound(to_customer_id))
  ELSE Ok(Unit)

\* Bank::transfer, "Step 1: Withdraw from source"
Bank_transfer_step1(self, u, from_customer_id, amount) ==
  IF from_customer_id \notin DOMAIN self.customers   \* get_mut(..).unwrap()
  THEN [result |-> Err(Panic), self |-> self, uuid |-> u]
  ELSE
  LET from_account == Customer_get_account_mut(self.customers[from_customer_id])
  IN  IF ~from_account.ok
      THEN [result |-> from_account, self |-> self, uuid |-> u]
      ELSE LET w == Account_withdraw(from_account.value, u, amount)
           IN  IF ~w.result.ok
               THEN [result |-> w.result, self |-> self, uuid |-> w.uuid]
               ELSE [result |-> Ok(Unit),
                     self |-> [self EXCEPT !.customers[from_customer_id].account = Some(w.self)],
                     uuid |-> w.uuid]

\* Bank::transfer, "Step 2: Deposit to destination"; Ok carries to_account_id
Bank_transfer_step2(self, u, to_customer_id, amount) ==
  IF to_customer_id \notin DOMAIN self.customers   \* get_mut(..).unwrap()
  THEN [result |-> Err(Panic), self |-> self, uuid |-> u]
  ELSE
  LET to_account == Customer_get_account_mut(self.customers[to_customer_id])
  IN  IF ~to_account.ok
      THEN [result |-> to_account, self |-> self, uuid |-> u]
      ELSE LET d == Account_deposit(to_account.value, u, amount)
           IN  IF ~d.result.ok
               THEN [result |-> d.result, self |-> self, uuid |-> d.uuid]
               ELSE [result |-> Ok(d.self.id),
                     self |-> [self EXCEPT !.customers[to_customer_id].account = Some(d.self)],
                     uuid |-> d.uuid]

\* Bank::transfer, "Step 3: Update transaction type to reflect transfer"
Bank_transfer_step3(self, u, from_customer_id, to_account_id) ==
  IF from_customer_id \notin DOMAIN self.customers   \* get_mut(..).unwrap()
  THEN [result |-> Err(Panic), self |-> self, uuid |-> u]
  ELSE
  LET from_account == Customer_get_account_mut(self.customers[from_customer_id])
  IN  IF ~from_account.ok
      THEN [result |-> from_account, self |-> self, uuid |-> u]
      ELSE [result |-> Ok(Unit),
            self |-> [self EXCEPT !.customers[from_customer_id].account =
                        Some(Account_mark_last_as_transfer(from_account.value, to_account_id))],
            uuid |-> u]

\* mutant: a transfer is counted once
Bank_transfer_counts_one(self, u, from_customer_id, to_customer_id, amount) ==
  LET v == Bank_transfer_validate(self, from_customer_id, to_customer_id) IN
  IF ~v.ok THEN [result |-> v, self |-> self, uuid |-> u]
  ELSE
  LET s1 == Bank_transfer_step1(self, u, from_customer_id, amount) IN
  IF ~s1.result.ok THEN s1
  ELSE
  LET s2 == Bank_transfer_step2(s1.self, s1.uuid, to_customer_id, amount) IN
  IF ~s2.result.ok THEN s2
  ELSE
  LET s3 == Bank_transfer_step3(s2.self, s2.uuid, from_customer_id, s2.result.value) IN
  IF ~s3.result.ok THEN s3
  ELSE [result |-> Ok(Unit),
        self |-> [s3.self EXCEPT !.total_transactions = @ + 1],
        uuid |-> s3.uuid]

\* Bank::transfer: the blocks in order; an early return (?) keeps what the
\* earlier blocks have written to the bank.
Bank_transfer(self, u, from_customer_id, to_customer_id, amount) ==
  LET v == Bank_transfer_validate(self, from_customer_id, to_customer_id) IN
  IF ~v.ok THEN [result |-> v, self |-> self, uuid |-> u]
  ELSE
  LET s1 == Bank_transfer_step1(self, u, from_customer_id, amount) IN
  IF ~s1.result.ok THEN s1
  ELSE
  LET s2 == Bank_transfer_step2(s1.self, s1.uuid, to_customer_id, amount) IN
  IF ~s2.result.ok THEN s2
  ELSE
  LET s3 == Bank_transfer_step3(s2.self, s2.uuid, from_customer_id, s2.result.value) IN
  IF ~s3.result.ok THEN s3
  ELSE [result |-> Ok(Unit),
        self |-> [s3.self EXCEPT !.total_transactions = @ + 2],
        uuid |-> s3.uuid]

(* ---------------------------- persistence.rs -------------------------- *)
\* The JSON text is kept as the tree of its values; numbers are kept as their
\* decimal text (ASCII codes), which is what is written and read back.
JsonNull         == [json |-> "null"]
JsonNumber(text) == [json |-> "number", text |-> text]
JsonString(text) == [json |-> "string", text |-> text]
JsonArray(items) == [json |-> "array", items |-> items]
JsonObject(fields) == [json |-> "object", fields |-> fields]

\* an unsigned integer in decimal digits, and back
RECURSIVE u64_to_string(_)
u64_to_string(n) ==
  IF n < 10 THEN <<48 + n>> ELSE Append(u64_to_string(n \div 10), 48 + (n % 10))

RECURSIVE str_parse_u64(_)
str_parse_u64(text) ==
  IF text = <<>> THEN 0
  ELSE 10 * str_parse_u64(SubSeq(text, 1, Len(text) - 1)) + (text[Len(text)] - 48)

\* serialize_f64: a finite value is written in decimal with its fraction, here
\* always ".0"; a value that is not finite is written as null
f64_serialize(x) ==
  IF x = NaN THEN JsonNull
  ELSE JsonNumber((IF x < 0 THEN <<45>> ELSE <<>>)
                  \o u64_to_string(IF x < 0 THEN 0 - x ELSE x) \o <<46, 48>>)

\* deserialize_f64 of a number: the representable value nearest to the decimal
f64_deserialize(v) ==
  LET negative == v.text[1] = 45
      digits   == IF negative THEN Tail(v.text) ELSE v.text
      dot      == CHOOSE i \in 1..(Len(digits) + 1) :
                    /\ i = Len(digits) + 1 \/ digits[i] = 46
                    /\ \A j \in 1..(i - 1) : digits[j] # 46
      whole    == str_parse_u64(SubSeq(digits, 1, dot - 1))
  IN  f64_round(IF negative THEN 0 - whole ELSE whole)

\* #[derive(Serialize)]; the timestamps are left out as in the records
TransactionType_serialize(self) ==
  IF self.tag = "Transfer"
  THEN JsonObject([Transfer |-> JsonObject([to_account_id |-> JsonString(self.to_account_id)])])
  ELSE JsonString(self.tag)

Transaction_serialize(self) ==
  JsonObject([id |-> JsonString(self.id),
              transaction_type |-> TransactionType_serialize(self.transaction_type),
              amount |-> f64_serialize(self.amount),
              balance_after |-> f64_serialize(self.balance_after)])

Account_serialize(self) ==
  JsonObject([id |-> JsonString(self.id),
              balance |-> f64_serialize(self.balance),
              transactions |-> JsonArray([i \in 1..Len(self.transactions) |->
                                            Transaction_serialize(self.transactions[i])])])

Customer_serialize(self) ==
  JsonObject([id |-> JsonString(self.id), name |-> JsonString(self.name),
              email |-> JsonString(self.email),
              account |-> IF self.account = None THEN JsonNull
                          ELSE Account_serialize(self.account[1])])

Bank_serialize(self) ==
  JsonObject([name |-> JsonString(self.name),
              customers |-> JsonObject([id \in DOMAIN self.customers |->
                                          Customer_serialize(self.customers[id])]),
              total_transactions |-> JsonNumber(u64_to_string(self.total_transactions))])

\* #[derive(Deserialize)]: whether the value can be read as the type (an f64
\* cannot be read from null), and the value read
f64_deserializes(v) == v.json = "number"

Transaction_deserializes(v) ==
  f64_deserializes(v.fields.amount) /\ f64_deserializes(v.fields.balance_after)

Account_deserializes(v) ==
  /\ f64_deserializes(v.fields.balance)
  /\ \A i \in 1..Len(v.fields.transactions.items) :
        Transaction_deserializes(v.fields.transactions.items[i])

Customer_deserializes(v) ==
  v.fields.account.json = "null" \/ Account_deserializes(v.fields.account)

Bank_deserializes(v) ==
  \A id \in DOMAIN v.fields.customers.fields :
    Customer_deserializes(v.fields.customers.fields[id])

TransactionType_deserialize(v) ==
  IF v.json = "string" THEN [tag |-> v.text]
  ELSE Transfer(v.fields.Transfer.fields.to_account_id.text)

Transaction_deserialize(v) ==
  [id |-> v.fields.id.text,
   transaction_type |-> TransactionType_deserialize(v.fields.transaction_type),
   amount |-> f64_deserialize(v.fields.amount),
   balance_after |-> f64_deserialize(v.fields.balance_after)]

Account_deserialize(v) ==
  [id |-> v.fields.id.text, balance |-> f64_deserialize(v.fields.balance),
   transactions |-> [i \in 1..Len(v.fields.transactions.items) |->
                       Transaction_deserialize(v.fields.transactions.items[i])]]

Customer_deserialize(v) ==
  [id |-> v.fields.id.text, name |-> v.fields.name.text, email |-> v.fields.email.text,
   account |-> IF v.fields.account.json = "null" THEN None
               ELSE Some(Account_deserialize(v.fields.account))]

Bank_deserialize(v) ==
  [name |-> v.fields.name.text,
   customers |-> [id \in DOMAIN v.fields.customers.fields |->
                    Customer_deserialize(v.fields.customers.fields[id])],
   total_transactions |-> str_parse_u64(v.fields.total_transactions.text)]

serde_json_to_string_pretty(value) == Ok(Bank_serialize(value))

serde_json_from_str(json) ==
  IF Bank_deserializes(json) THEN Ok(Bank_deserialize(json)) ELSE Err(SerializationError)

\* fs::write: the file is created or truncated and written, or cannot be opened
fs_write(file, contents, opened) ==
  IF opened THEN [result |-> Ok(Unit), file |-> Some(contents)]
  ELSE [result |-> Err(IoError), file |-> file]

fs_read_to_string(file) == IF file = None THEN Err(IoError) ELSE Ok(file[1])

save_bank(bank_, file, opened) ==
  LET json == serde_json_to_string_pretty(bank_)
  IN  IF ~json.ok THEN [result |-> json, file |-> file]
      ELSE fs_write(file, json.value, opened)

load_bank(file) ==
  LET json == fs_read_to_string(file)
  IN  IF ~json.ok THEN json ELSE serde_json_from_str(json.value)

(* ---------------------------- cli/mod.rs ------------------------------- *)
\* mutant: a new bank whatever the file holds
BankCLI_new_fresh(bank_name, data_file) == Bank_new(bank_name)

\* BankCLI::new: load_bank(..).unwrap_or_else(|_| Bank::new(bank_name))
BankCLI_new(bank_name, data_file) ==
  LET loaded == load_bank(data_file)
  IN  IF loaded.ok THEN loaded.value ELSE Bank_new(bank_name)

\* BankCLI::run: the loop shows the menu, reads a choice and runs one
\* handler; the handler locks the bank, makes one ledger call, prints the
\* returned Result and unlocks.  last_call is the call the current handler
\* has made (NoCall while the menu is shown) and before is the bank as the
\* handler found it.
Call(op, args, result) == [op |-> op, args |-> args, result |-> result]
NoCall == Call("none", [none |-> TRUE], Ok(Unit))

\* the threads that share the bank, and a thread that is reading its menu choice
Threads == {"t1", "t2"}
AtMenu  == [pc |-> "menu", call |-> NoCall]

\* BankCLI::new with no store to load: Bank::new("Rust National Bank")
Init ==
  /\ bank = Bank_new("Rust National Bank")
  /\ uuid = [customer |-> 0, account |-> 0, transaction |-> 0]
  /\ last_call = NoCall
  /\ before = bank
  /\ lock = None
  /\ threads = [t \in Threads |-> AtMenu]
  /\ store = None

\* the outcome o of one call becomes the new state, within the explored bounds
Commit(o, op, args) ==
  /\ last_call.op = "none"
  /\ o.uuid.transaction <= MaxRecords
  /\ bank' = o.self
  /\ uuid' = o.uuid
  /\ last_call' = Call(op, args, o.result)
  /\ before' = bank
  /\ UNCHANGED <<lock, threads, store>>

RegisterCustomer ==
  \E r \in Registrations :
    Commit(Bank_register_customer(bank, uuid, r.name, r.email),
           "register_customer", [name |-> r.name, email |-> r.email])

CreateAccount(amounts) ==
  \E id \in CustomerIds, a \in amounts :
    Commit(Bank_create_account_for_customer(bank, uuid, id, a),
           "create_account_for_customer", [customer_id |-> id, initial_deposit |-> a])

DepositMoney(amounts) ==
  \E id \in CustomerIds, a \in amounts :
    Commit(Bank_deposit(bank, uuid, id, a), "deposit", [customer_id |-> id, amount |-> a])

WithdrawMoney(amounts) ==
  \E id \in CustomerIds, a \in amounts :
    Commit(Bank_withdraw(bank, uuid, id, a), "withdraw", [customer_id |-> id, amount |-> a])

TransferMoney(amounts) ==
  \E from \in CustomerIds, to \in RecipientIds, a \in amounts :
    Commit(Bank_transfer(bank, uuid, from, to, a), "transfer",
           [from_customer_id |-> from, to_customer_id |-> to, amount |-> a])

\* view_account_details: a query; what it prints is its result
AccountDetails(self, customer_id) ==
  LET customer == Bank_get_customer(self, customer_id)
  IN  IF ~customer.ok THEN customer
      ELSE IF customer.value.account = None THEN Ok(Unit)
      ELSE [ok |-> TRUE,
            total_deposits    |-> Account_total_deposits(customer.value.account[1]),
            total_withdrawals |-> Account_total_withdrawals(customer.value.account[1]),
            transaction_count |-> Len(customer.value.account[1].transactions)]

ViewAccountDetails ==
  \E id \in CustomerIds :
    Commit([result |-> AccountDetails(bank, id), self |-> bank, uuid |-> uuid],
           "view_account_details", [customer_id |-> id])

\* the queries of list_all_customers, search_customers and view_bank_statistics
Query(result, op, args) == Commit([result |-> result, self |-> bank, uuid |-> uuid], op, args)

ListAllCustomers ==
  Query([ok |-> TRUE, customers |-> Bank_list_customers(bank)], "list_customers", [all |-> TRUE])

SearchCustomers ==
  \E query \in NameQueries :
    Query([ok |-> TRUE, customers |-> Bank_find_customers_by_name(bank, query)],
          "find_customers_by_name", [name_query |-> query])

ViewBankStatistics ==
  Query(OkBalance(Bank_total_bank_balance(bank)), "total_bank_balance", [all |-> TRUE])

\* the handler returns and the loop shows the menu again
DisplayMenu ==
  /\ last_call.op # "none"
  /\ last_call' = NoCall
  /\ before' = bank
  /\ UNCHANGED <<bank, uuid, lock, threads, store>>

Next ==
  \/ RegisterCustomer
  \/ CreateAccount(Amounts)
  \/ DepositMoney(Amounts)
  \/ WithdrawMoney(Amounts)
  \/ TransferMoney(TransferAmounts)
  \/ ViewAccountDetails
  \/ ListAllCustomers
  \/ SearchCustomers
  \/ ViewBankStatistics
  \/ DisplayMenu

Spec == Init /\ [][Next]_vars

\* the same loop with a user who types "NaN" at the amount prompts
NextNonFinite ==
  \/ RegisterCustomer
  \/ CreateAccount(NonFiniteAmounts)
  \/ DepositMoney(NonFiniteAmounts)
  \/ WithdrawMoney(NonFiniteAmounts)
  \/ TransferMoney(NonFiniteAmounts)
  \/ ViewAccountDetails
  \/ ListAllCustomers
  \/ SearchCustomers
  \/ ViewBankStatistics
  \/ DisplayMenu

SpecNonFinite == Init /\ [][NextNonFinite]_vars

(* ---------------------------- the data file ---------------------------- *)
\* a ledger as two registrations and two account creations leave it: the first
\* customer's account opened with 1, the second's with 0
Prepared ==
  LET r1 == Bank_register_customer(Bank_new("Rust National Bank"),
                                   [customer |-> 0, account |-> 0, transaction |-> 0],
                                   <<66, 111, 98>>, <<98, 64, 120>>)
      r2 == Bank_register_customer(r1.self, r1.uuid, <<65, 108>>, <<65, 64, 120>>)
      a1 == Bank_create_account_for_customer(r2.self, r2.uuid, r1.result.value, 1)
  IN  Bank_create_account_for_customer(a1.self, a1.uuid, r2.result.value, 0)

\* a run that starts with that ledger in memory and no data file
InitStore ==
  /\ bank = Prepared.self
  /\ uuid = Prepared.uuid
  /\ last_call = NoCall
  /\ before = bank
  /\ lock = None
  /\ threads = [t \in Threads |-> AtMenu]
  /\ store = None

\* save_data (menu choices 11 and 0): the bank is written to the data file
SaveData ==
  \E opened \in BOOLEAN :
    LET saved == save_bank(bank, store, opened)
    IN  /\ last_call.op = "none"
        /\ store' = saved.file
        /\ last_call' = Call("save_bank", [all |-> TRUE], saved.result)
        /\ before' = bank
        /\ UNCHANGED <<bank, uuid, lock, threads>>

\* the process ends, saved or not, and is started again: BankCLI::new
Startup ==
  /\ last_call.op = "none"
  /\ bank' = BankCLI_new("Rust National Bank", store)
  /\ last_call' = Call("load_bank", [all |-> TRUE], load_bank(store))
  /\ before' = bank
  /\ UNCHANGED <<uuid, lock, threads, store>>

\* the loop with a data file, for a user who also types "NaN"
NextStore ==
  \/ DepositMoney(NonFiniteAmounts)
  \/ WithdrawMoney(NonFiniteAmounts)
  \/ TransferMoney(NonFiniteAmounts)
  \/ SaveData
  \/ Startup
  \/ DisplayMenu

SpecStore == InitStore /\ [][NextStore]_vars

(* ---------------------------- threads sharing the bank ----------------- *)
\* Every handler takes its input, locks the Mutex (bank.lock().unwrap()), makes
\* its ledger call through the guard and drops the guard when it returns.  Here
\* several threads run handlers on clones of the same Arc<Mutex<Bank>>.  A
\* transfer is taken block by block, so the bank between its blocks is a state
\* of the model; the other calls are one step.

\* that ledger after a third registration, "Carol"/"c@x.com", without an account
ThreeCustomers ==
  Bank_register_customer(Prepared.self, Prepared.uuid,
                         <<67, 97, 114, 111, 108>>, <<99, 64, 120>>)

InitThreads ==
  /\ bank = ThreeCustomers.self
  /\ uuid = ThreeCustomers.uuid
  /\ last_call = NoCall
  /\ before = bank
  /\ lock = None
  /\ threads = [t \in Threads |-> AtMenu]
  /\ store = None

\* the calls a thread may be asked to make: a withdrawal from any customer, a
\* deposit to the customer whose account is empty at the start, a transfer
\* between any two customers, a query and save_data
ThreadCalls ==
  {Call("withdraw", [customer_id |-> id, amount |-> 1], Ok(Unit)) :
      id \in DOMAIN bank.customers}
  \cup {Call("deposit", [customer_id |-> id, amount |-> 1], Ok(Unit)) :
          id \in {c \in DOMAIN bank.customers : bank.customers[c].email = <<65, 64, 120>>}}
  \cup {Call("transfer", [from_customer_id |-> ids[1], to_customer_id |-> ids[2], amount |-> 1],
              Ok(Unit)) : ids \in {p \in (DOMAIN bank.customers) \X (DOMAIN bank.customers) :
                                     p[1] # p[2]}}
  \cup {Call("view_account_details", [customer_id |-> ThreeCustomers.result.value], Ok(Unit))}
  \cup {Call("save_data", [all |-> TRUE], Ok(Unit))}

\* the transaction records a call can create
RecordsOf(call) ==
  IF call.op = "transfer" THEN 2 ELSE IF call.op \in {"deposit", "withdraw"} THEN 1 ELSE 0

\* the records the calls that the given threads have asked for can create
RECURSIVE RecordsAskedFor(_)
RecordsAskedFor(ts) ==
  IF ts = {} THEN 0
  ELSE LET t == CHOOSE x \in ts : TRUE
       IN  RecordsOf(threads[t].call) + RecordsAskedFor(ts \ {t})

\* the handler has read what to do, within the explored bounds
ReadInput(t) ==
  /\ threads[t].pc = "menu"
  /\ \E call \in ThreadCalls :
        /\ uuid.transaction + RecordsAskedFor(Threads \ {t}) + RecordsOf(call) <= MaxRecords
        /\ threads' = [threads EXCEPT ![t] = [pc |-> "lock", call |-> call]]
  /\ UNCHANGED <<bank, uuid, last_call, before, lock, store>>

\* the calls that can change the ledger
LedgerCalls == {"deposit", "withdraw", "transfer"}

\* mutant: the lock is handed out while another thread holds it
Mutex_lock_broken(t) ==
  /\ threads[t].pc = "lock"
  /\ lock' = Some(t)
  /\ threads' = [threads EXCEPT ![t].pc =
                   IF threads[t].call.op = "transfer" THEN "validate" ELSE "call"]
  /\ before' = IF threads[t].call.op \in LedgerCalls THEN bank ELSE before
  /\ UNCHANGED <<bank, uuid, last_call, store>>

\* bank.lock(): the thread waits until no guard is alive, then holds the guard.
\* before is the bank as the last call that can change it found it.
Mutex_lock(t) ==
  /\ threads[t].pc = "lock"
  /\ lock = None
  /\ lock' = Some(t)
  /\ threads' = [threads EXCEPT ![t].pc =
                   IF threads[t].call.op = "transfer" THEN "validate" ELSE "call"]
  /\ before' = IF threads[t].call.op \in LedgerCalls THEN bank ELSE before
  /\ UNCHANGED <<bank, uuid, last_call, store>>

\* the outcome o of a block of thread t's call, and where the thread goes next
Step(t, o, next) ==
  /\ bank' = o.self
  /\ uuid' = o.uuid
  /\ threads' = [threads EXCEPT ![t] = [pc |-> IF o.result.ok THEN next ELSE "unlock",
                                         call |-> [threads[t].call EXCEPT !.result = o.result]]]
  /\ UNCHANGED <<last_call, before, lock, store>>

\* bank.deposit(..), bank.withdraw(..) or the query, through the guard
CallLedger(t) ==
  /\ threads[t].pc = "call"
  /\ threads[t].call.op # "save_data"
  /\ LET call == threads[t].call
     IN  IF call.op = "deposit"
         THEN Step(t, Bank_deposit(bank, uuid, call.args.customer_id, call.args.amount),
                   "unlock")
         ELSE IF call.op = "withdraw"
         THEN Step(t, Bank_withdraw(bank, uuid, call.args.customer_id, call.args.amount),
                   "unlock")
         ELSE Step(t, [result |-> AccountDetails(bank, call.args.customer_id),
                       self |-> bank, uuid |-> uuid], "unlock")

\* bank.transfer(..) through the guard, block by block
TransferValidate(t) ==
  /\ threads[t].pc = "validate"
  /\ LET args == threads[t].call.args
     IN  Step(t, [result |-> Bank_transfer_validate(bank, args.from_customer_id,
                                                    args.to_customer_id),
                  self |-> bank, uuid |-> uuid], "step1")

TransferStep1(t) ==
  /\ threads[t].pc = "step1"
  /\ LET args == threads[t].call.args
     IN  Step(t, Bank_transfer_step1(bank, uuid, args.from_customer_id, args.amount), "step2")

TransferStep2(t) ==
  /\ threads[t].pc = "step2"
  /\ LET args == threads[t].call.args
     IN  Step(t, Bank_transfer_step2(bank, uuid, args.to_customer_id, args.amount), "step3")

\* step 3 and the count that follows it
TransferStep3(t) ==
  /\ threads[t].pc = "step3"
  /\ LET args == threads[t].call.args
         s3 == Bank_transfer_step3(bank, uuid, args.from_customer_id,
                                   threads[t].call.result.value)
     IN  Step(t, IF ~s3.result.ok THEN s3
                 ELSE [result |-> Ok(Unit),
                       self |-> [s3.self EXCEPT !.total_transactions = @ + 2],
                       uuid |-> s3.uuid], "unlock")

\* save_data: persistence::save_bank(&bank, ..) through the guard
SaveBank(t) ==
  /\ threads[t].pc = "call"
  /\ threads[t].call.op = "save_data"
  /\ \E opened \in BOOLEAN :
        LET saved == save_bank(bank, store, opened)
        IN  /\ store' = saved.file
            /\ threads' = [threads EXCEPT ![t] = [pc |-> "unlock",
                              call |-> [threads[t].call EXCEPT !.result = saved.result]]]
  /\ UNCHANGED <<bank, uuid, last_call, before, lock>>

\* mutant: the guard is dropped only when the call has returned Ok
MutexGuard_drop_on_ok(t) ==
  /\ threads[t].pc = "unlock"
  /\ lock' = IF lock = Some(t) /\ threads[t].call.result.ok THEN None ELSE lock
  /\ threads' = [threads EXCEPT ![t] = AtMenu]
  /\ last_call' = IF threads[t].call.op \in LedgerCalls THEN threads[t].call ELSE last_call
  /\ UNCHANGED <<bank, uuid, before, store>>

\* the handler returns, with Ok or through ?: the guard goes out of scope.
\* last_call is the last call that can change the ledger and has returned.
MutexGuard_drop(t) ==
  /\ threads[t].pc = "unlock"
  /\ lock' = IF lock = Some(t) THEN None ELSE lock
  /\ threads' = [threads EXCEPT ![t] = AtMenu]
  /\ last_call' = IF threads[t].call.op \in LedgerCalls THEN threads[t].call ELSE last_call
  /\ UNCHANGED <<bank, uuid, before, store>>

NextThreads ==
  \E t \in Threads :
    \/ ReadInput(t)
    \/ Mutex_lock(t)
    \/ CallLedger(t)
    \/ TransferValidate(t)
    \/ TransferStep1(t)
    \/ TransferStep2(t)
    \/ TransferStep3(t)
    \/ SaveBank(t)
    \/ MutexGuard_drop(t)

SpecThreads == InitThreads /\ [][NextThreads]_vars

\* what thread t does from taking the lock to dropping the guard
Holding(t) ==
  \/ CallLedger(t)
  \/ TransferValidate(t)
  \/ TransferStep1(t)
  \/ TransferStep2(t)
  \/ TransferStep3(t)
  \/ SaveBank(t)
  \/ MutexGuard_drop(t)

\* A thread that can run does run, and the lock is fair: a thread that waits
\* for it while it is released again and again gets it.
Fairness ==
  \A t \in Threads : SF_vars(Mutex_lock(t)) /\ WF_vars(Holding(t))

SpecThreadsFair == SpecThreads /\ Fairness

(* ---------------------------- properties ------------------------------ *)
Registered(b, id) == id \in DOMAIN b.customers
HasAccount(b, id) == Registered(b, id) /\ b.customers[id].account # None
AccountOf(b, id)  == b.customers[id].account[1]
Last(log)         == log[Len(log)]
Failed(kind)      == ~last_call.result.ok /\ last_call.result.error.kind = kind

\* log is old followed by exactly one more record
AppendsOne(old, log) == Len(log) = Len(old) + 1 /\ SubSeq(log, 1, Len(old)) = old

\* a + b and a - b as numbers, without rounding; not a number when a side is not
Plus(a, b)  == IF a = NaN \/ b = NaN THEN NaN ELSE a + b
Minus(a, b) == IF a = NaN \/ b = NaN THEN NaN ELSE a - b

TransferCall == last_call.op = "transfer"
From   == last_call.args.from_customer_id
To     == last_call.args.to_customer_id
Amount == last_call.args.amount

\* C1: a transfer that returns an error leaves the whole ledger (every
\* balance, every log, total_transactions) as it was before the call.
C1_FailedTransferChangesNothing ==
  (TransferCall /\ ~last_call.result.ok) => bank = before

\* C2: in every reachable state every account's balance is >= 0.
C2_BalanceNonNegative ==
  \A id \in DOMAIN bank.customers :
    HasAccount(bank, id) => f64_le(0, AccountOf(bank, id).balance)

\* C3: after every successful transfer, from == to included, total_bank_balance()
\* equals its value before the call.
C3_TransferConservesTotal ==
  (TransferCall /\ last_call.result.ok) =>
     Bank_total_bank_balance(bank) = Bank_total_bank_balance(before)

\* C4: both customers exist, the source has an account and amount exceeds its
\* balance: transfer returns InsufficientFunds{available = source balance before
\* the call, requested = amount}; the source account, the destination customer's
\* account and total_transactions are unchanged.
C4_InsufficientFundsTransfer ==
  (/\ TransferCall
   /\ Registered(before, From) /\ Registered(before, To)
   /\ HasAccount(before, From)
   /\ f64_lt(AccountOf(before, From).balance, Amount))
  => /\ Failed("InsufficientFunds")
     /\ last_call.result.error.available = AccountOf(before, From).balance
     /\ last_call.result.error.requested = Amount
     /\ bank.customers[From].account = before.customers[From].account
     /\ bank.customers[To].account = before.customers[To].account
     /\ bank.total_transactions = before.total_transactions

\* a transfer of more than a positive source balance to a customer with an account
C4_Witness ==
  /\ TransferCall /\ Failed("InsufficientFunds")
  /\ From # To /\ HasAccount(before, To)
  /\ f64_lt(0, AccountOf(before, From).balance)

\* C5: a successful transfer between two different customers takes exactly amount
\* from the source balance and adds exactly amount to the destination balance;
\* the source log gains exactly one record, of kind Transfer{to_account_id =
\* destination account id}, with that amount and balance_after = new source
\* balance; the destination log gains exactly one Deposit record;
\* total_transactions grows by exactly 2.
C5_TransferEffect ==
  (TransferCall /\ last_call.result.ok /\ From # To) =>
    LET src0 == AccountOf(before, From)  src1 == AccountOf(bank, From)
        dst0 == AccountOf(before, To)    dst1 == AccountOf(bank, To)
    IN  /\ src1.balance = Minus(src0.balance, Amount)
        /\ dst1.balance = Plus(dst0.balance, Amount)
        /\ AppendsOne(src0.transactions, src1.transactions)
        /\ Last(src1.transactions).transaction_type.tag = "Transfer"
        /\ Last(src1.transactions).transaction_type.to_account_id = dst1.id
        /\ Last(src1.transactions).amount = Amount
        /\ Last(src1.transactions).balance_after = src1.balance
        /\ AppendsOne(dst0.transactions, dst1.transactions)
        /\ Last(dst1.transactions).transaction_type.tag = "Deposit"
        /\ Last(dst1.transactions).amount = Amount
        /\ bank.total_transactions = before.total_transactions + 2

\* C6: the record a transfer reclassifies is the Withdrawal record this same
\* transfer appended to the source log (the first record past the source's old
\* log); no Deposit record is turned into a Transfer, from == to included.
C6_ReclassifiesOwnWithdrawal ==
  (TransferCall /\ last_call.result.ok) =>
    LET old == AccountOf(before, From).transactions
        log == AccountOf(bank, From).transactions
    IN  /\ Len(log) > Len(old)
        /\ log[Len(old) + 1].transaction_type.tag = "Transfer"
        /\ Last(AccountOf(bank, To).transactions).transaction_type.tag = "Deposit"

\* C7: an unregistered source or destination id makes transfer return
\* CustomerNotFound with the missing id (the source id when both are missing)
\* and change nothing, whatever the amount.
C7_UnknownCustomerTransfer ==
  (TransferCall /\ (~Registered(before, From) \/ ~Registered(before, To))) =>
     /\ Failed("CustomerNotFound")
     /\ last_call.result.error.id = (IF ~Registered(before, From) THEN From ELSE To)
     /\ bank = before

\* a transfer the source could pay, to an unregistered destination
C7_Witness ==
  /\ TransferCall /\ Failed("CustomerNotFound")
  /\ HasAccount(before, From) /\ ~Registered(before, To)
  /\ f64_lt(0, Amount) /\ f64_le(Amount, AccountOf(before, From).balance)

\* C8: register_customer, create_account_for_customer, deposit and withdraw
\* leave the whole ledger unchanged whenever they return an error.
C8_FailedCallChangesNothing ==
  (/\ last_call.op \in {"register_customer", "create_account_for_customer",
                         "deposit", "withdraw"}
   /\ ~last_call.result.ok)
  => bank = before

\* a withdrawal of more than a positive balance was refused
C8_Witness ==
  /\ last_call.op = "withdraw" /\ Failed("InsufficientFunds")
  /\ f64_lt(0, last_call.result.error.available)

\* C9: for every account, a non-empty log ends in a record whose balance_after
\* is the balance; with an empty log the balance is the initial deposit, 0.
C9_BalanceMatchesLog ==
  \A id \in DOMAIN bank.customers :
    HasAccount(bank, id) =>
      LET a == AccountOf(bank, id)
      IN  IF Len(a.transactions) > 0
          THEN a.balance = Last(a.transactions).balance_after
          ELSE a.balance = 0

\* two strings that differ at most in the case of ASCII letters
SameIgnoringCase(a, b) ==
  /\ Len(a) = Len(b)
  /\ \A i \in 1..Len(a) :
       \/ a[i] = b[i]
       \/ a[i] >= 65 /\ a[i] <= 90 /\ b[i] = a[i] + 32
       \/ b[i] >= 65 /\ b[i] <= 90 /\ a[i] = b[i] + 32

\* C10: no two registered customers have emails equal up to case;
\* register_customer with an email equal up to case to a registered one returns
\* CustomerAlreadyExists and adds no customer.
C10_EmailsUnique ==
  /\ \A c1 \in DOMAIN bank.customers, c2 \in DOMAIN bank.customers :
        c1 # c2 => ~SameIgnoringCase(bank.customers[c1].email, bank.customers[c2].email)
  /\ (/\ last_call.op = "register_customer"
      /\ \E c \in DOMAIN before.customers :
            SameIgnoringCase(before.customers[c].email, last_call.args.email))
     => (Failed("CustomerAlreadyExists") /\ bank = before)

\* "A@x" was refused because "a@x" is registered, or the other way round
C10_Witness ==
  /\ last_call.op = "register_customer" /\ Failed("CustomerAlreadyExists")
  /\ \A c \in DOMAIN bank.customers : bank.customers[c].email # last_call.args.email

\* C11: create_account_for_customer for a customer that already has an account
\* fails with the error kind AccountAlreadyExists, whatever the initial deposit,
\* and leaves the existing account and total_transactions unchanged.
C11_SecondAccountRefusedAsAccountAlreadyExists ==
  (/\ last_call.op = "create_account_for_customer"
   /\ HasAccount(before, last_call.args.customer_id))
  => /\ Failed("AccountAlreadyExists")
     /\ bank.customers[last_call.args.customer_id].account =
          before.customers[last_call.args.customer_id].account
     /\ bank.total_transactions = before.total_transactions

\* C12: a customer stays registered, and once a customer has an account every
\* later state has that customer with an account of the same id: no call removes
\* or replaces an account, and a call that gives a customer an account finds the
\* customer without one.
C12_AccountKept ==
  /\ \A id \in DOMAIN before.customers :
        /\ Registered(bank, id)
        /\ HasAccount(before, id) =>
              (HasAccount(bank, id) /\ AccountOf(bank, id).id = AccountOf(before, id).id)
  /\ \A id \in DOMAIN bank.customers :
        (HasAccount(bank, id) /\ ~HasAccount(before, id)) =>
           /\ last_call.op = "create_account_for_customer"
           /\ last_call.args.customer_id = id
           /\ last_call.result.ok

\* a second account was asked for a customer with an account and a non-empty log
C12_Witness ==
  /\ last_call.op = "create_account_for_customer"
  /\ HasAccount(before, last_call.args.customer_id)
  /\ f64_lt(0, last_call.args.initial_deposit)
  /\ Len(AccountOf(bank, last_call.args.customer_id).transactions) > 1

\* C13: create_account_for_customer on a registered customer without an account:
\* initial_deposit < 0 fails with InvalidAmount and the customer still has no
\* account; initial_deposit = 0 creates an account with balance 0 and an empty
\* log; initial_deposit > 0 creates an account with balance initial_deposit and
\* exactly one Deposit record whose amount and balance_after are initial_deposit.
C13_CreateAccountCases ==
  (/\ last_call.op = "create_account_for_customer"
   /\ Registered(before, last_call.args.customer_id)
   /\ ~HasAccount(before, last_call.args.customer_id))
  => LET id == last_call.args.customer_id
         d  == last_call.args.initial_deposit
         opened == /\ last_call.result.ok
                   /\ HasAccount(bank, id)
                   /\ last_call.result.value = AccountOf(bank, id).id
                   /\ AccountOf(bank, id).balance = d
     IN  /\ f64_lt(d, 0) => (Failed("InvalidAmount") /\ ~HasAccount(bank, id))
         /\ d = 0 => (opened /\ AccountOf(bank, id).transactions = <<>>)
         /\ f64_lt(0, d) =>
               /\ opened
               /\ Len(AccountOf(bank, id).transactions) = 1
               /\ AccountOf(bank, id).transactions[1].transaction_type = Deposit
               /\ AccountOf(bank, id).transactions[1].amount = d
               /\ AccountOf(bank, id).transactions[1].balance_after = d

\* an account was opened with nothing while another customer's account, opened
\* with a deposit, exists
C13_Witness ==
  /\ last_call.op = "create_account_for_customer" /\ last_call.result.ok
  /\ last_call.args.initial_deposit = 0
  /\ \E other \in DOMAIN bank.customers :
        /\ other # last_call.args.customer_id
        /\ HasAccount(bank, other)
        /\ Len(AccountOf(bank, other).transactions) = 1

\* C14: withdraw(customer, amount) with amount > 0 on a customer with an account:
\* amount > balance fails with InsufficientFunds{available = balance, requested =
\* amount} and leaves balance and log unchanged; amount <= balance (amount =
\* balance leaving 0) decreases the balance by amount, appends one Withdrawal
\* record with balance_after = new balance, and returns the new balance.
C14_WithdrawEffect ==
  (/\ last_call.op = "withdraw"
   /\ f64_lt(0, last_call.args.amount)
   /\ HasAccount(before, last_call.args.customer_id))
  => LET amount == last_call.args.amount
         old == AccountOf(before, last_call.args.customer_id)
         new == AccountOf(bank, last_call.args.customer_id)
     IN  IF f64_lt(old.balance, amount)
         THEN /\ Failed("InsufficientFunds")
              /\ last_call.result.error.available = old.balance
              /\ last_call.result.error.requested = amount
              /\ new = old
         ELSE /\ last_call.result.ok
              /\ new.balance = Minus(old.balance, amount)
              /\ AppendsOne(old.transactions, new.transactions)
              /\ Last(new.transactions).transaction_type = Withdrawal
              /\ Last(new.transactions).amount = amount
              /\ Last(new.transactions).balance_after = new.balance
              /\ last_call.result.balance = new.balance

\* C15: deposit(customer, amount) on a customer with an account: amount <= 0
\* fails with InvalidAmount(amount) and changes nothing; otherwise the balance
\* grows by exactly amount, exactly one Deposit record with that amount and
\* balance_after = new balance is appended, and the new balance is returned.
C15_DepositEffect ==
  (/\ last_call.op = "deposit"
   /\ HasAccount(before, last_call.args.customer_id))
  => LET amount == last_call.args.amount
         old == AccountOf(before, last_call.args.customer_id)
         new == AccountOf(bank, last_call.args.customer_id)
     IN  IF f64_le(amount, 0)
         THEN /\ Failed("InvalidAmount")
              /\ last_call.result.error.amount = amount
              /\ bank = before
         ELSE /\ last_call.result.ok
              /\ new.balance = Plus(old.balance, amount)
              /\ AppendsOne(old.transactions, new.transactions)
              /\ Last(new.transactions).transaction_type = Deposit
              /\ Last(new.transactions).amount = amount
              /\ Last(new.transactions).balance_after = new.balance
              /\ last_call.result.balance = new.balance

\* C16: a successful withdraw of x followed by a successful deposit of x on the
\* same account gives back the balance from before the withdraw.  The log tells
\* the two calls: the deposit of x found a log ending in a Withdrawal of x, and
\* the balance before that withdrawal is the balance_after of the record before.
C16_WithdrawThenDepositRestores ==
  (/\ last_call.op = "deposit" /\ last_call.result.ok
   /\ f64_lt(0, last_call.args.amount)
   /\ Len(AccountOf(before, last_call.args.customer_id).transactions) >= 2
   /\ Last(AccountOf(before, last_call.args.customer_id).transactions).transaction_type
        = Withdrawal
   /\ Last(AccountOf(before, last_call.args.customer_id).transactions).amount
        = last_call.args.amount)
  => LET old == AccountOf(before, last_call.args.customer_id).transactions
     IN  AccountOf(bank, last_call.args.customer_id).balance
           = old[Len(old) - 1].balance_after

\* what a call adds to total_transactions
Counted(call) ==
  IF ~call.result.ok THEN 0
  ELSE IF call.op \in {"create_account_for_customer", "deposit", "withdraw"} THEN 1
  ELSE IF call.op = "transfer" THEN 2
  ELSE 0

\* C17: total_transactions never decreases; a call changes it by +1 when it is
\* a successful create_account_for_customer, deposit or withdraw, by +2 when it
\* is a successful transfer, and by 0 when it is register_customer, a query or a
\* call that returns an error; from 0 at the start it is therefore the number
\* of successful create_account, deposit and withdraw calls plus twice the
\* number of successful transfers.
C17_TotalTransactionsCounts ==
  /\ bank.total_transactions = before.total_transactions + Counted(last_call)
  /\ bank.total_transactions >= before.total_transactions
  /\ bank.customers = << >> => bank.total_transactions = 0

\* a transfer was counted twice after earlier calls had been counted
C17_Witness ==
  /\ TransferCall /\ last_call.result.ok
  /\ before.total_transactions >= 2
  /\ bank.total_transactions = before.total_transactions + 2

\* C18: each account's log is append-only: over every call its length does not
\* decrease and every record it held keeps its position, id, amount and
\* balance_after; the kind of a record it held changes at most in a transfer,
\* for the record that is last in the source's log.
C18_LogAppendOnly ==
  \A id \in DOMAIN before.customers :
    HasAccount(before, id) =>
      LET old == AccountOf(before, id).transactions
          log == AccountOf(bank, id).transactions
      IN  /\ Len(log) >= Len(old)
          /\ \A i \in 1..Len(old) :
                /\ log[i].id = old[i].id
                /\ log[i].amount = old[i].amount
                /\ log[i].balance_after = old[i].balance_after
                /\ log[i].transaction_type # old[i].transaction_type =>
                      (TransferCall /\ id = From /\ i = Len(log))

\* a transfer has added to a log that held a record
C18_Witness ==
  /\ TransferCall /\ last_call.result.ok
  /\ Len(AccountOf(before, From).transactions) >= 1
  /\ Len(AccountOf(bank, From).transactions) > Len(AccountOf(before, From).transactions)
  /\ AccountOf(before, From).transactions[1].transaction_type = Deposit

\* C19: for every account total_withdrawals() is the sum of the amounts of its
\* Withdrawal and Transfer records, and total_deposits() the sum of the amounts
\* of its Deposit records.
C19_TotalsByKind ==
  \A id \in DOMAIN bank.customers :
    HasAccount(bank, id) =>
      LET a == AccountOf(bank, id)
      IN  /\ Account_total_withdrawals(a) =
                sum(AmountsOfKind(a.transactions, {"Withdrawal", "Transfer"}))
          /\ Account_total_deposits(a) = sum(AmountsOfKind(a.transactions, {"Deposit"}))

\* thread t is inside a Bank operation or query
Inside(t) == threads[t].pc \in {"call", "validate", "step1", "step2", "step3", "unlock"}

\* thread t's transfer has taken the amount from its source and has not yet
\* given it to its destination
DebitedNotCredited(t) == threads[t].pc = "step2"

C23_NoPanic == ~Failed("panic")

\* a transfer between two customers has passed its three lookups
C23_Witness ==
  /\ TransferCall /\ last_call.result.ok /\ From # To
  /\ Last(AccountOf(bank, From).transactions).transaction_type.tag = "Transfer"

\* the number of records of all logs
RECURSIVE RecordCount(_, _)
RecordCount(b, ids) ==
  IF ids = {} THEN 0
  ELSE LET id == CHOOSE x \in ids : TRUE
       IN  RecordCount(b, ids \ {id})
             + (IF HasAccount(b, id) THEN Len(AccountOf(b, id).transactions) ELSE 0)

\* the sum of a sequence of amounts as numbers, without rounding
RECURSIVE Total(_)
Total(values) ==
  IF values = <<>> THEN 0
  ELSE Plus(Total(SubSeq(values, 1, Len(values) - 1)), values[Len(values)])

\* C25: every record of every log has amount > 0 and balance_after >= 0.
C25_RecordsPositive ==
  \A id \in DOMAIN bank.customers :
    HasAccount(bank, id) =>
      \A i \in 1..Len(AccountOf(bank, id).transactions) :
        /\ f64_lt(0, AccountOf(bank, id).transactions[i].amount)
        /\ f64_le(0, AccountOf(bank, id).transactions[i].balance_after)

\* C26: for every account the balance is the sum of the amounts of its Deposit
\* records minus the sum of the amounts of its Withdrawal and Transfer records.
C26_LogExplainsBalance ==
  \A id \in DOMAIN bank.customers :
    HasAccount(bank, id) =>
      LET a == AccountOf(bank, id)
      IN  a.balance = Minus(Total(AmountsOfKind(a.transactions, {"Deposit"})),
                            Total(AmountsOfKind(a.transactions, {"Withdrawal", "Transfer"})))

\* C27: the number of records over all accounts is at most total_transactions,
\* and the two are equal when every account was opened with a positive deposit:
\* the two grow by the same number in every call but the opening of an account
\* with no deposit.
C27_RecordsCounted ==
  /\ RecordCount(bank, DOMAIN bank.customers) <= bank.total_transactions
  /\ ~(/\ last_call.op = "create_account_for_customer" /\ last_call.result.ok
       /\ ~f64_lt(0, last_call.args.initial_deposit))
     => RecordCount(bank, DOMAIN bank.customers) - RecordCount(before, DOMAIN before.customers)
          = bank.total_transactions - before.total_transactions

\* C28: the failure conditions are checked in a fixed order.  deposit and
\* withdraw: an unregistered id gives CustomerNotFound whatever the amount; a
\* registered customer without an account gives AccountNotFound, amount <= 0
\* included; on an account amount <= 0 gives InvalidAmount, so InsufficientFunds
\* is never reported for a non-positive amount.  transfer: an unregistered
\* source or destination gives CustomerNotFound, then a source without an
\* account gives AccountNotFound, then amount <= 0 gives InvalidAmount, then the
\* funds are checked.
C28_ChecksInOrder ==
  /\ last_call.op \in {"deposit", "withdraw"} =>
        LET id == last_call.args.customer_id
        IN  /\ ~Registered(before, id) => Failed("CustomerNotFound")
            /\ (Registered(before, id) /\ ~HasAccount(before, id)) => Failed("AccountNotFound")
            /\ (HasAccount(before, id) /\ f64_le(last_call.args.amount, 0)) =>
                  Failed("InvalidAmount")
            /\ Failed("InsufficientFunds") => f64_lt(0, last_call.args.amount)
  /\ TransferCall =>
        /\ (~Registered(before, From) \/ ~Registered(before, To)) => Failed("CustomerNotFound")
        /\ (Registered(before, From) /\ Registered(before, To)) =>
              /\ ~HasAccount(before, From) => Failed("AccountNotFound")
              /\ (HasAccount(before, From) /\ f64_le(Amount, 0)) => Failed("InvalidAmount")
              /\ Failed("InsufficientFunds") =>
                    (f64_lt(0, Amount) /\ f64_lt(AccountOf(before, From).balance, Amount))

\* a deposit of a non-positive amount was refused for the missing account of a
\* registered customer
C28_Witness ==
  /\ last_call.op = "deposit" /\ Failed("AccountNotFound")
  /\ f64_le(last_call.args.amount, 0)

\* the customers a call names
Named(call) ==
  IF call.op \in {"create_account_for_customer", "deposit", "withdraw"}
  THEN {call.args.customer_id}
  ELSE IF call.op = "transfer"
  THEN {call.args.from_customer_id, call.args.to_customer_id}
  ELSE {}

\* C29: a call touches only the customers it names: deposit, withdraw and
\* create_account_for_customer leave every customer but theirs as it was,
\* transfer every customer but its source and destination, register_customer
\* every existing customer; the queries get_customer, list_customers,
\* find_customers_by_name and total_bank_balance leave the whole bank as it was.
C29_OnlyNamedCustomersChange ==
  /\ \A id \in DOMAIN before.customers \ Named(last_call) :
        Registered(bank, id) /\ bank.customers[id] = before.customers[id]
  /\ last_call.op # "register_customer" => DOMAIN bank.customers = DOMAIN before.customers
  /\ last_call.op \in {"view_account_details", "list_customers", "find_customers_by_name",
                        "total_bank_balance"} => bank = before

\* a customer was registered with a customer in the bank that has an account
\* with a record
C29_Witness ==
  /\ last_call.op = "register_customer" /\ last_call.result.ok
  /\ \E id \in DOMAIN before.customers :
        HasAccount(before, id) /\ Len(AccountOf(before, id).transactions) > 0

\* C21: what load_bank reads from the file save_bank has written is the saved
\* ledger: the same name, customers (with their account and its records in
\* order) and total_transactions; the file holds nothing of an earlier save.
C21_SaveLoadRoundTrip ==
  (last_call.op = "save_bank" /\ last_call.result.ok) =>
     /\ store # None
     /\ load_bank(store).ok
     /\ load_bank(store).value.name = bank.name
     /\ load_bank(store).value.customers = bank.customers
     /\ load_bank(store).value.total_transactions = bank.total_transactions

\* C22: at startup a missing file (IoError) or a file that cannot be decoded
\* (SerializationError) gives a new ledger with the given name, no customers and
\* total_transactions 0; a file that can be decoded gives the stored ledger.
C22_StartupFallsBack ==
  last_call.op = "load_bank" =>
     /\ store = None => Failed("IoError")
     /\ ~last_call.result.ok =>
           /\ last_call.result.error.kind \in {"IoError", "SerializationError"}
           /\ bank.name = "Rust National Bank"
           /\ DOMAIN bank.customers = {}
           /\ bank.total_transactions = 0
     /\ last_call.result.ok => (store # None /\ bank = last_call.result.value)

\* a restart found a file that cannot be decoded and the customers are gone
C22_Witness ==
  /\ last_call.op = "load_bank" /\ Failed("SerializationError")
  /\ DOMAIN before.customers # {} /\ DOMAIN bank.customers = {}

\* C24: under a fair lock every thread that asks for a ledger call or for
\* save_data gets the lock, and every thread that holds the lock finishes its
\* call, on the Ok and on the Err path, and is back at the menu with the lock
\* released; a thread that holds the lock waits for nothing.
C24_EveryCallCompletes ==
  \A t \in Threads :
    (threads[t].pc = "lock") ~> (threads[t].pc = "menu" /\ lock # Some(t))

\* a thread waits for the lock while the other thread, whose transfer has
\* returned an error, still holds it
C24_Witness ==
  \E t \in Threads, other \in Threads :
    /\ threads[t].pc = "lock"
    /\ threads[other].pc = "unlock" /\ lock = Some(other)
    /\ threads[other].call.op = "transfer" /\ ~threads[other].call.result.ok

\* thread t has written the data file and still holds the lock
Saved(t) ==
  /\ threads[t].pc = "unlock"
  /\ threads[t].call.op = "save_data" /\ threads[t].call.result.ok

\* C30: save_data writes the file while it holds the lock of the ledger calls:
\* the snapshot is the ledger as it is with no other thread inside a call, and
\* it holds no debit of a transfer without its credit: when the last call that
\* returned before the snapshot is a transfer that returned an error, the
\* snapshot is the ledger as that transfer found it.
C30_SnapshotBetweenCalls ==
  \A t \in Threads :
    Saved(t) =>
      /\ lock = Some(t)
      /\ \A other \in Threads \ {t} : ~Inside(other)
      /\ store = Some(Bank_serialize(bank))
      /\ (last_call.op = "transfer" /\ ~last_call.result.ok) =>
            store = Some(Bank_serialize(before))

====
